---- MODULE Spec2Model ----
(***************************************************************************)
(* TimeCtlGUI (gtk2_ardour/timectl_gui.cc): the latency / tail-time        *)
(* control widget.  A Gtk::Adjustment mirrors a value owned by an external *)
(* Latent or TailTime object; finish() pushes user edits to the external   *)
(* object, refresh() and reset() pull the external value into the mirror   *)
(* under the _ignore_change guard.                                         *)
(*                                                                         *)
(* The adjustment holds a double.  Every value the code can produce is a   *)
(* whole number of thousandths of a sample (the only fraction comes from   *)
(* sample_rate / 1000.0), so a value is modelled exactly as an integer     *)
(* count of 1/1000 sample.  Rounding error of IEEE doubles is not          *)
(* modelled.                                                               *)
(***************************************************************************)
EXTENDS Integers, Sequences, FiniteSets

VARIABLES
    kind,              \* "latent": _latent set, _tailtime 0; "tailtime": the converse
    sample_rate,       \* TimeCtlGUI::sample_rate
    period_size,       \* TimeCtlGUI::period_size
    user_set,          \* the external object has a user override
    user_value,        \* the user override, in samples (0 when there is none)
    adjustment,        \* adjustment.get_value (), in 1/1000 sample
    _ignore_change,    \* TimeCtlGUI::_ignore_change
    finish_connected,  \* finish() is connected to adjustment.signal_value_changed ()
    units_combo,       \* units_combo.get_active_text ()
    fatal_log,         \* number of messages sent to the fatal channel
    pc,                \* "new": not yet constructed, "ready", "aborted"
    \* History of the last operation (selecting a unit is not recorded)
    last_op,           \* its name
    finish_did,        \* what finish() did in it: "none" (not called), "pushed", "ignored"
    value_changed,     \* it changed the adjustment's value
    round_trip,        \* it is a refresh() that directly followed a pushed click
    ext_read,          \* init (), reset (): the signal_latency () / signal_tailtime ()
                       \* it read; refresh (): the effective_latency () /
                       \* effective_tailtime () it read; 0 otherwise
    max_tail_read,     \* the Config->get_max_tail_samples () it read, 0 if none
    pre_adjustment,    \* init (), refresh (): the adjustment's value before it
    pre_user_set,      \* init (), refresh (): user_set before it
    pre_user_value     \* init (), refresh (): user_value before it

history == <<last_op, finish_did, value_changed, round_trip, ext_read,
             max_tail_read, pre_adjustment, pre_user_set, pre_user_value>>

vars == <<kind, sample_rate, period_size, user_set, user_value, adjustment,
          _ignore_change, finish_connected, units_combo, fatal_log, pc,
          history>>

params == <<kind, sample_rate, period_size>>

----------------------------------------------------------------------------
(* Bounds of the model *)

\* signal_latency () / signal_tailtime () return 1/2, 3/2, ... times
\* sample_rate (MaxSignal values), or a value beyond every adjustment maximum
MaxSignal == 2

(* Program constants *)

MsecPerSec == 1000

TailMaxSeconds == 20

----------------------------------------------------------------------------
(* Helpers *)

Min(a, b) == IF a < b THEN a ELSE b

Max(a, b) == IF a > b THEN a ELSE b

\* n whole samples as an adjustment value
S(n) == n * MsecPerSec

\* (samplepos_t) v for a double v: truncation toward zero
Trunc(v) == IF v >= 0 THEN v \div MsecPerSec ELSE -((-v) \div MsecPerSec)

_unit_strings == <<"sample", "msec", "period">>

\* the active text of the combo: one of the unit strings, or "" when the
\* combo has no active item
ComboTexts == {_unit_strings[i] : i \in 1..Len(_unit_strings)} \cup {""}

Kinds == {"latent", "tailtime"}

\* sample rates: 500 and 1500 make a msec a fractional number of samples.
\* The tail-time range is 20 s at 1/1000 sample, so it is explored at one rate.
SampleRates(k) == IF k = "latent" THEN {500, 1000, 1500} ELSE {500}

PeriodSizes == {64}

\* values signal_latency () / signal_tailtime () may return
Signals == {((2 * k - 1) * sample_rate) \div 2 : k \in 1..MaxSignal}
           \cup {(TailMaxSeconds + 1) * sample_rate}

\* values Config->get_max_tail_samples () may return; the latency widget
\* does not read it (0: not read)
MaxTails == IF kind = "latent" THEN {0}
            ELSE {2 * sample_rate, 2 * TailMaxSeconds * sample_rate}

\* arguments of TimeCtlGUIControllable::set_value: below the range, on the
\* msec grid inside it, beyond the latency range, beyond the tail-time range
SetValues == {-S(1), 3 * sample_rate, S(sample_rate) + S(1),
              S(TailMaxSeconds * sample_rate) + S(1)}

----------------------------------------------------------------------------
(* The external object: Latent / TailTime *)

set_user(w, val) == [w EXCEPT !.uset = TRUE, !.uval = val]

unset_user(w) == [w EXCEPT !.uset = FALSE, !.uval = 0]

effective(w, sig) == IF w.uset THEN w.uval ELSE sig

----------------------------------------------------------------------------
(* The widget *)

\* the fields the handlers read and write
W == [adj |-> adjustment, ignore |-> _ignore_change,
      connected |-> finish_connected,
      uset |-> user_set, uval |-> user_value, fin |-> "none"]

adj_lower == 0

\* both constructors given the tail-time range
adj_upper_copied == S(TailMaxSeconds * sample_rate)

adj_upper == IF kind = "latent" THEN S(sample_rate)
             ELSE S(TailMaxSeconds * sample_rate)

adj_page_size == IF kind = "latent" THEN 0 ELSE S(sample_rate) \div 2

\* finish() rounding to the nearest sample instead of truncating
finish_rounding(w) ==
    IF w.ignore THEN [w EXCEPT !.fin = "ignored"]
    ELSE set_user([w EXCEPT !.fin = "pushed"], Trunc(w.adj + (S(1) \div 2)))

finish(w) ==
    IF w.ignore THEN [w EXCEPT !.fin = "ignored"]
    ELSE set_user([w EXCEPT !.fin = "pushed"], Trunc(w.adj))

\* Gtk::Adjustment::set_value: clamp, store, emit value_changed when the
\* value differs from the old one
adj_set_value(w, v) ==
    LET nv == Max(Min(v, adj_upper - adj_page_size), adj_lower)
        w2 == [w EXCEPT !.adj = nv]
    IN  IF nv = w.adj THEN w
        ELSE IF w.connected THEN finish(w2) ELSE w2

\* init () connecting finish() before it sets the initial value
init_connects_first(w, sig) ==
    LET w0 == [w EXCEPT !.adj = 0, !.ignore = FALSE, !.connected = TRUE]
    IN  adj_set_value(w0, S(Min(sample_rate, sig)))

\* the constructors' member initialisers followed by init ()
init(w, sig) ==
    LET w0 == [w EXCEPT !.adj = 0, !.ignore = FALSE, !.connected = FALSE]
        w1 == adj_set_value(w0, S(Min(sample_rate, sig)))
    IN  [w1 EXCEPT !.connected = TRUE]

\* reset () without the Unwinder
reset_unguarded(w, sig, max_tail) ==
    LET w1 == unset_user(w)
    IN  IF kind = "latent"
        THEN adj_set_value(w1, S(Min(sample_rate, sig)))
        ELSE adj_set_value(w1, S(Min(max_tail, sig)))

\* reset () limiting the tail time to sample_rate, as init () does
reset_caps_at_rate(w, sig, max_tail) ==
    LET w1 == unset_user(w)
        w2 == [w1 EXCEPT !.ignore = TRUE]
        w3 == adj_set_value(w2, S(Min(sample_rate, sig)))
    IN  [w3 EXCEPT !.ignore = w1.ignore]

reset(w, sig, max_tail) ==
    LET w1 == unset_user(w)
        w2 == [w1 EXCEPT !.ignore = TRUE]
        w3 == IF kind = "latent"
              THEN adj_set_value(w2, S(Min(sample_rate, sig)))
              ELSE adj_set_value(w2, S(Min(max_tail, sig)))
    IN  [w3 EXCEPT !.ignore = w1.ignore]

\* refresh () without the Unwinder
refresh_unguarded(w, sig, max_tail) ==
    IF kind = "latent"
    THEN adj_set_value(w, S(Min(sample_rate, effective(w, sig))))
    ELSE adj_set_value(w, S(Min(max_tail, effective(w, sig))))

\* refresh () setting _ignore_change and never restoring it
refresh_keeps_guard(w, sig, max_tail) ==
    LET w1 == [w EXCEPT !.ignore = TRUE]
    IN  IF kind = "latent"
        THEN adj_set_value(w1, S(Min(sample_rate, effective(w1, sig))))
        ELSE adj_set_value(w1, S(Min(max_tail, effective(w1, sig))))

refresh(w, sig, max_tail) ==
    LET w1 == [w EXCEPT !.ignore = TRUE]
        w2 == IF kind = "latent"
              THEN adj_set_value(w1, S(Min(sample_rate, effective(w1, sig))))
              ELSE adj_set_value(w1, S(Min(max_tail, effective(w1, sig))))
    IN  [w2 EXCEPT !.ignore = w.ignore]

\* change_from_button without its final else branch
illegal_unit_never(unitstr) == FALSE

\* whether change_from_button reaches its final else branch
illegal_unit(unitstr) ==
    /\ unitstr # _unit_strings[1]
    /\ unitstr # _unit_strings[2]
    /\ unitstr # _unit_strings[3]

\* the msec step computed in integer arithmetic (sample_rate / 1000)
shift_integer_msec(unitstr) ==
    IF unitstr = _unit_strings[1] THEN S(1)
    ELSE IF unitstr = _unit_strings[2] THEN S(sample_rate \div MsecPerSec)
    ELSE S(period_size)

shift(unitstr) ==
    IF unitstr = _unit_strings[1] THEN S(1)
    ELSE IF unitstr = _unit_strings[2] THEN S(sample_rate) \div MsecPerSec
    ELSE S(period_size)

change_from_button(w, dir, unitstr) ==
    IF dir > 0 THEN adj_set_value(w, w.adj + shift(unitstr))
    ELSE adj_set_value(w, w.adj - shift(unitstr))

controllable_set_value(w, v) == adj_set_value(w, v)

----------------------------------------------------------------------------
(* Actions *)

\* the handler op has returned, leaving the fields as in w
Returns(w, op) ==
    /\ adjustment' = w.adj
    /\ _ignore_change' = w.ignore
    /\ finish_connected' = w.connected
    /\ user_set' = w.uset
    /\ user_value' = w.uval
    /\ last_op' = op
    /\ finish_did' = w.fin
    /\ value_changed' = (w.adj # adjustment)
    /\ UNCHANGED params

\* what the handler read from the external object and from Config
Read(ext, max_tail) ==
    /\ ext_read' = ext
    /\ max_tail_read' = max_tail

\* the values before the handler ran
Pre(adj, uset, uval) ==
    /\ pre_adjustment' = adj
    /\ pre_user_set' = uset
    /\ pre_user_value' = uval

Init ==
    /\ kind \in Kinds
    /\ sample_rate \in SampleRates(kind)
    /\ period_size \in PeriodSizes
    /\ user_set \in BOOLEAN
    /\ user_value = IF user_set THEN sample_rate \div 4 ELSE 0
    /\ adjustment = 0
    /\ _ignore_change = FALSE
    /\ finish_connected = FALSE
    /\ units_combo = ""
    /\ fatal_log = 0
    /\ pc = "new"
    /\ last_op = "none"
    /\ finish_did = "none"
    /\ value_changed = FALSE
    /\ round_trip = FALSE
    /\ ext_read = 0
    /\ max_tail_read = 0
    /\ pre_adjustment = 0
    /\ pre_user_set = FALSE
    /\ pre_user_value = 0

Construct(sig) ==
    /\ pc = "new"
    /\ Returns(init(W, sig), "init")
    /\ Read(sig, 0)
    /\ Pre(0, user_set, user_value)
    /\ round_trip' = FALSE
    /\ units_combo' = _unit_strings[1]
    /\ pc' = "ready"
    /\ UNCHANGED fatal_log

SelectUnits(u) ==
    /\ pc = "ready"
    /\ units_combo' = u
    /\ UNCHANGED <<params, user_set, user_value, adjustment, _ignore_change,
                   finish_connected, fatal_log, pc, history>>

ButtonClick(dir) ==
    /\ pc = "ready"
    /\ IF illegal_unit(units_combo)
       THEN /\ fatal_log' = fatal_log + 1
            /\ pc' = "aborted"
            /\ last_op' = "abort"
            /\ finish_did' = "none"
            /\ value_changed' = FALSE
            /\ UNCHANGED <<params, user_set, user_value, adjustment,
                           _ignore_change, finish_connected>>
       ELSE /\ Returns(change_from_button(W, dir, units_combo), "button")
            /\ UNCHANGED <<fatal_log, pc>>
    /\ Read(0, 0)
    /\ Pre(0, FALSE, 0)
    /\ round_trip' = FALSE
    /\ UNCHANGED units_combo

SetValue(v) ==
    /\ pc = "ready"
    /\ Returns(controllable_set_value(W, v), "set_value")
    /\ Read(0, 0)
    /\ Pre(0, FALSE, 0)
    /\ round_trip' = FALSE
    /\ UNCHANGED <<units_combo, fatal_log, pc>>

Refresh(sig, max_tail) ==
    /\ pc = "ready"
    /\ Returns(refresh(W, sig, max_tail), "refresh")
    /\ Read(effective(W, sig), max_tail)
    /\ Pre(adjustment, user_set, user_value)
    /\ round_trip' = (last_op = "button" /\ finish_did = "pushed")
    /\ UNCHANGED <<units_combo, fatal_log, pc>>

Reset(sig, max_tail) ==
    /\ pc = "ready"
    /\ Returns(reset(W, sig, max_tail), "reset")
    /\ Read(sig, max_tail)
    /\ Pre(0, FALSE, 0)
    /\ round_trip' = FALSE
    /\ UNCHANGED <<units_combo, fatal_log, pc>>

Next ==
    \/ \E sig \in Signals : Construct(sig)
    \/ \E u \in ComboTexts : SelectUnits(u)
    \/ \E dir \in {-1, 1} : ButtonClick(dir)
    \/ \E v \in SetValues : SetValue(v)
    \/ \E sig \in Signals, mt \in MaxTails : Refresh(sig, mt)
    \/ \E sig \in Signals, mt \in MaxTails : Reset(sig, mt)

Spec == Init /\ [][Next]_vars

----------------------------------------------------------------------------
(* Properties *)

\* v limited to the range the adjustment enforces
Limited(v) == Max(adj_lower, Min(v, adj_upper - adj_page_size))

\* C1: once constructed, and after any clicks, set_value calls, refresh()
\* and reset(), the adjustment's value is at least 0 and at most sample_rate
\* (latency widget) or 20 * sample_rate (tail-time widget).
C1_ValueWithinBounds ==
    pc # "new" =>
        /\ adjustment >= 0
        /\ kind = "latent" => adjustment <= S(sample_rate)
        /\ kind = "tailtime" => adjustment <= S(20 * sample_rate)

\* a set_value beyond the latency range left the value at sample_rate
C1_Witness ==
    /\ last_op = "set_value"
    /\ kind = "latent"
    /\ value_changed
    /\ adjustment = S(sample_rate)

\* C2: when reset() has returned the external object has no user override,
\* also when reset() changed the adjustment and so invoked finish().
C2_ResetClearsOverride ==
    last_op = "reset" => ~user_set

\* reset() changed the adjustment, finish() ran and was suppressed
C2_Witness ==
    /\ last_op = "reset"
    /\ value_changed
    /\ finish_did = "ignored"
    /\ ~user_set

\* C3: refresh() leaves the external user override as it was, set or not
\* and its value, also when it changes the adjustment.
C3_RefreshKeepsOverride ==
    last_op = "refresh" =>
        /\ user_set = pre_user_set
        /\ user_value = pre_user_value

\* refresh() changed the adjustment of a widget whose external object has
\* an override; finish() ran and was suppressed
C3_Witness ==
    /\ last_op = "refresh"
    /\ value_changed
    /\ finish_did = "ignored"
    /\ user_set
    /\ adjustment # S(user_value)

\* C4: no handler returns with _ignore_change set, and every click or
\* set_value that alters the adjustment's value leaves the external
\* override set to that value truncated to whole samples.
C4_UserEditPushed ==
    /\ ~_ignore_change
    /\ (last_op \in {"button", "set_value"} /\ value_changed) =>
           (user_set /\ user_value = Trunc(adjustment))

\* a set_value to a fractional number of samples was pushed truncated
C4_Witness ==
    /\ last_op = "set_value"
    /\ value_changed
    /\ user_set
    /\ user_value = Trunc(adjustment)
    /\ adjustment # S(user_value)

\* C5: a click while the combo holds none of the three unit strings logs a
\* fatal message and aborts, changing neither the adjustment nor the
\* external override; nothing runs after the abort.
C5_IllegalUnitAborts ==
    [][/\ pc # "aborted"
       /\ (/\ units_combo \notin {"sample", "msec", "period"}
           /\ \E dir \in {-1, 1} : ButtonClick(dir)) =>
              /\ pc' = "aborted"
              /\ fatal_log' = fatal_log + 1
              /\ UNCHANGED <<adjustment, user_set, user_value>>]_vars

\* the process aborted on a click with no unit selected
C5_Witness ==
    /\ pc = "aborted"
    /\ last_op = "abort"
    /\ fatal_log = 1
    /\ units_combo = ""

C7_RoundTripLossless ==
    round_trip => adjustment = pre_adjustment

\* C7 amended: that refresh() leaves the adjustment at the value the click
\* set truncated to whole samples, limited for a tail-time widget to
\* Config->get_max_tail_samples ().
C7_RoundTripTruncates ==
    round_trip =>
        adjustment = IF kind = "latent" THEN S(Trunc(pre_adjustment))
                     ELSE S(Min(max_tail_read, Trunc(pre_adjustment)))

\* a refresh() directly after a pushed click changed the adjustment to the
\* truncated value
C7_Witness ==
    /\ round_trip
    /\ value_changed
    /\ adjustment = S(Trunc(pre_adjustment))

\* C8: construction leaves the external override as it was.
C8_ConstructKeepsOverride ==
    last_op = "init" =>
        /\ user_set = pre_user_set
        /\ user_value = pre_user_value

\* a latency widget was constructed on a signal latency larger than the
\* adjustment's maximum, its external object having no override
C8_Witness ==
    /\ last_op = "init"
    /\ kind = "latent"
    /\ ext_read > sample_rate
    /\ adjustment = S(sample_rate)
    /\ ~user_set

\* C9: construction sets the adjustment to the signal value limited to the
\* adjustment's upper bound: sample_rate for a latency widget,
\* 20 * sample_rate for a tail-time widget.
C9_InitialValue ==
    last_op = "init" =>
        adjustment = IF kind = "latent"
                     THEN S(Min(sample_rate, ext_read))
                     ELSE S(Min(20 * sample_rate, ext_read))

\* C10: a refresh() directly after reset(), the external signal value and
\* Config->get_max_tail_samples () being those reset() read, does not change
\* the adjustment.
C10_ResetThenRefresh ==
    last_op = "reset" =>
        refresh(W, ext_read, max_tail_read).adj = adjustment

\* reset() left a tail-time widget at Config->get_max_tail_samples (), the
\* signal tail time being larger
C10_Witness ==
    /\ last_op = "reset"
    /\ kind = "tailtime"
    /\ ext_read > max_tail_read
    /\ adjustment = S(max_tail_read)

====
